---- MODULE Spec2Model ----
(***************************************************************************)
(* LogLens: log ingestion (log_parser.py) and analysis (log_analyzer.py).  *)
(*                                                                         *)
(* Text is modelled as a sequence of atoms.  An atom is a TLA+ string that *)
(* stands for exactly the characters it spells ("\t" is one tab, Huge is a *)
(* run of 131073 letters x).  Every atom is homogeneous for the character  *)
(* classes the program's regular expressions use, and no atom is the       *)
(* concatenation of other atoms, so two texts are equal exactly when their *)
(* atom sequences are equal.  A line of a file is the text before its      *)
(* newline.                                                                *)
(***************************************************************************)
EXTENDS Integers, Sequences, FiniteSets, TLC

(* ---------------------------------------------------------------------- *)
(* Generic sequence helpers                                                *)
(* ---------------------------------------------------------------------- *)
Range(s) == {s[i] : i \in 1..Len(s)}

(* ---------------------------------------------------------------------- *)
(* Atoms and character classes                                             *)
(* ---------------------------------------------------------------------- *)
Huge == "x*131073"

\* "\n" never occurs inside a line; it occurs in a delimited field that spans lines
SpaceAtoms == {" ", "\t", "\n"}

\* atoms made of decimal digits only, with their values
DigitAtoms == {"15", "29", "12", "200", "399", "400", "404", "499", "500", "503"}

\* atoms made of word characters only ([A-Za-z0-9_])
WordAtoms == DigitAtoms \cup
    {"INFO", "WARNING", "ERROR", "CRITICAL", "info", "Error", "Critical", "Warning",
     "error", "critical", "warning", "errors",
     "Mar", "Feb", "mar", "feb", "app", "db", "host", "svc", "h",
     "GET", "get", "Request", "request", "Status", "status", "Size", "size",
     "WebServer", "webserver", "unknown", "No", "no", "message",
     "timestamp", "severity", "source", "level",
     "the", "The", "was", "an", "a", "and", "or", "but", "is", "are", "were",
     "disk", "full", "up", "down", "ok", Huge}

\* dddd-dd-dd
DateAtoms == {"2023-10-10", "2023-12-31", "2024-01-01", "2024-01-02", "2024-02-30",
              "2024-02-15", "2024-02-29", "2024-03-15", "2024-03-29",
              "2025-02-15", "2025-03-15", "2025-03-29"}
\* dddd/dd/dd
SlashDateAtoms == {"2024/01/01", "2024/01/02"}
\* dd:dd:dd
TimeAtoms == {"00:00:00", "23:59:59", "12:34:56", "13:55:36", "25:00:00"}
\* a dot and one to six digits
FracAtoms == {".5"}
\* dd/Mon/yyyy:dd:dd:dd and look-alikes that are not dates
ApacheStampAtoms == {"10/Oct/2023:13:55:36", "31/Feb/2023:13:55:36"}

PunctAtoms == {"[", "]", ":", "-", ",", "/", "\"", "+0000", "(", ")"}

Atoms == SpaceAtoms \cup WordAtoms \cup DateAtoms \cup SlashDateAtoms \cup TimeAtoms
         \cup FracAtoms \cup ApacheStampAtoms \cup PunctAtoms

IsSpace(a)    == a \in SpaceAtoms
IsWord(a)     == a \in WordAtoms
HasColon(a)   == a \in ({":"} \cup TimeAtoms \cup ApacheStampAtoms)
HasBracket(a) == a = "]"
HasQuote(a)   == a = "\""

\* Fixed-width pattern elements (\w{3}, \d{2}, a date, a time) are matched against
\* whole atoms: in the texts of this model two word atoms are never adjacent.
Word3Atoms == {"Mar", "Feb", "mar", "feb", "app", "GET", "get", "the", "The",
               "was", "and", "but", "are", "200", "399", "400", "404", "499", "500", "503"}
Digit2Atoms == {"15", "29", "12"}

IntOf(a) ==
    CASE a = "15" -> 15 [] a = "29" -> 29 [] a = "12" -> 12
      [] a = "200" -> 200 [] a = "399" -> 399 [] a = "400" -> 400 [] a = "404" -> 404
      [] a = "499" -> 499 [] a = "500" -> 500 [] a = "503" -> 503

\* str.lower() of one atom
LowerAtom(a) ==
    CASE a \in {"ERROR", "Error"} -> "error"
      [] a \in {"CRITICAL", "Critical"} -> "critical"
      [] a \in {"WARNING", "Warning"} -> "warning"
      [] a = "INFO" -> "info"
      [] a = "Mar" -> "mar" [] a = "Feb" -> "feb" [] a = "GET" -> "get"
      [] a = "Request" -> "request" [] a = "Status" -> "status" [] a = "Size" -> "size"
      [] a = "WebServer" -> "webserver" [] a = "No" -> "no" [] a = "The" -> "the"
      [] OTHER -> a

Lower(s) == [i \in 1..Len(s) |-> LowerAtom(s[i])]

\* needle in lowercase atom a, for the three needles the program searches
AtomContains(a, needle) ==
    \/ a = needle
    \/ needle = "error" /\ a = "errors"

\* `needle in s` for a text whose atoms never straddle the needle
Contains(s, needle) == \E i \in 1..Len(s) : AtomContains(s[i], needle)

(* ---------------------------------------------------------------------- *)
(* str.strip(), str.split(), " ".join()                                    *)
(* ---------------------------------------------------------------------- *)
RECURSIVE LStrip(_)
LStrip(s) == IF s # <<>> /\ IsSpace(Head(s)) THEN LStrip(Tail(s)) ELSE s

RECURSIVE RStrip(_)
RStrip(s) == IF s # <<>> /\ IsSpace(s[Len(s)]) THEN RStrip(SubSeq(s, 1, Len(s) - 1)) ELSE s

Strip(s) == RStrip(LStrip(s))

NonSpace   == Atoms \ SpaceAtoms
NoColon    == {a \in Atoms : ~HasColon(a)}
NoBracket  == {a \in Atoms : ~HasBracket(a)}
NoQuote    == {a \in Atoms : ~HasQuote(a)}

\* number of atoms of the longest run of atoms of class cls that starts at s[i]
RECURSIVE RunLen(_, _, _)
RunLen(s, i, cls) ==
    IF i <= Len(s) /\ s[i] \in cls THEN 1 + RunLen(s, i + 1, cls) ELSE 0

\* str.split(): the maximal runs of non-whitespace, each a text
RECURSIVE Split(_)
Split(s) ==
    LET t == LStrip(s) IN
    IF t = <<>> THEN <<>>
    ELSE LET n == RunLen(t, 1, NonSpace)
         IN <<SubSeq(t, 1, n)>> \o Split(SubSeq(t, n + 1, Len(t)))

RECURSIVE Join(_)
\* " ".join(parts)
Join(parts) ==
    IF parts = <<>> THEN <<>>
    ELSE IF Len(parts) = 1 THEN parts[1]
    ELSE parts[1] \o <<" ">> \o Join(Tail(parts))

(* ---------------------------------------------------------------------- *)
(* log_parser.py: LogEntry, the three grammars, the single-line parsers    *)
(* ---------------------------------------------------------------------- *)
None == "None"
\* a pattern that does not match (re.match returns None); a match has groups
NoMatch == <<>>
\* what a call yields: the exception it raised (or None) and the entries it returned;
\* a single-line parser returns no entry (its None) or one
Returned(entries) == [raised |-> None, entries |-> entries]
Raised(exception) == [raised |-> exception, entries |-> <<>>]

At(s, i) == IF i >= 1 /\ i <= Len(s) THEN s[i] ELSE "<end>"

LogEntry(timestamp, severity, source, message) ==
    [timestamp |-> timestamp, severity |-> severity, source |-> source, message |-> message]

\* LogEntry.__str__: f"[{self.timestamp}] {self.severity} - {self.source}: {self.message}"
__str__(self) ==
    <<"[">> \o self.timestamp \o <<"]", " ">> \o self.severity \o <<" ", "-", " ">>
        \o self.source \o <<":", " ">> \o self.message

\* ^\[(\d{4}-\d{2}-\d{2} \d{2}:\d{2}:\d{2})\] (\w+) - ([^:]+): (.+)$
\* the groups <<timestamp, severity, source, message>>, or NoMatch
MatchStandard(s) ==
    LET nw == RunLen(s, 7, WordAtoms)
        i  == 7 + nw
        ns == RunLen(s, i + 3, NoColon)
        k  == i + 3 + ns
    IN IF /\ At(s, 1) = "[" /\ At(s, 2) \in DateAtoms /\ At(s, 3) = " "
          /\ At(s, 4) \in TimeAtoms /\ At(s, 5) = "]" /\ At(s, 6) = " "
          /\ nw >= 1
          /\ At(s, i) = " " /\ At(s, i + 1) = "-" /\ At(s, i + 2) = " "
          /\ ns >= 1
          /\ At(s, k) = ":" /\ At(s, k + 1) = " "
          /\ k + 2 <= Len(s)
          /\ "\n" \notin Range(SubSeq(s, k + 2, Len(s)))
       THEN <<SubSeq(s, 2, 4), SubSeq(s, 7, i - 1), SubSeq(s, i + 3, k - 1),
              SubSeq(s, k + 2, Len(s))>>
       ELSE NoMatch

\* The greedy runs of a pattern: run k is the longest run of atoms of fields[k].class
\* that starts fields[k].skip atoms after the end of run k - 1 (after position i for
\* the first), as <<[at |-> its first position, len |-> its length], ...>>.
RECURSIVE Runs(_, _, _, _)
Runs(s, i, fields, k) ==
    IF k > Len(fields) THEN <<>>
    ELSE CHOOSE r \in {<<[at |-> i + fields[k].skip + 1, len |-> n]>>
                          \o Runs(s, i + fields[k].skip + n, fields, k + 1) :
                       n \in {RunLen(s, i + fields[k].skip + 1, fields[k].class)}} : TRUE

\* (\S+), \S+, \S+, ([^]]+), ([^"]+), (\d+), (\d+), ([^"]*), ([^"]*) and the number of
\* literal characters before each
ApacheFields ==
    <<[skip |-> 0, class |-> NonSpace], [skip |-> 1, class |-> NonSpace],
      [skip |-> 1, class |-> NonSpace], [skip |-> 2, class |-> NoBracket],
      [skip |-> 3, class |-> NoQuote], [skip |-> 2, class |-> DigitAtoms],
      [skip |-> 1, class |-> DigitAtoms], [skip |-> 2, class |-> NoQuote],
      [skip |-> 3, class |-> NoQuote]>>

\* ^(\S+) \S+ \S+ \[([^]]+)\] "([^"]+)" (\d+) (\d+) "([^"]*)" "([^"]*)"$
\* the groups <<ip, timestamp, request, status, size, referrer, user_agent>>, or NoMatch
MatchApache(s) ==
    CHOOSE groups \in
        {IF /\ \A k \in 1..7 : r[k].len >= 1
            /\ At(s, r[2].at - 1) = " " /\ At(s, r[3].at - 1) = " "
            /\ At(s, r[4].at - 2) = " " /\ At(s, r[4].at - 1) = "["
            /\ At(s, r[5].at - 3) = "]" /\ At(s, r[5].at - 2) = " "
            /\ At(s, r[5].at - 1) = "\""
            /\ At(s, r[6].at - 2) = "\"" /\ At(s, r[6].at - 1) = " "
            /\ At(s, r[7].at - 1) = " "
            /\ At(s, r[8].at - 2) = " " /\ At(s, r[8].at - 1) = "\""
            /\ At(s, r[9].at - 3) = "\"" /\ At(s, r[9].at - 2) = " "
            /\ At(s, r[9].at - 1) = "\""
            /\ At(s, r[9].at + r[9].len) = "\""
            /\ r[9].at + r[9].len = Len(s)
         THEN [k \in 1..7 |->
                 LET f == r[IF k = 1 THEN 1 ELSE k + 2]
                 IN  SubSeq(s, f.at, f.at + f.len - 1)]
         ELSE NoMatch : r \in {Runs(s, 0, ApacheFields, 1)}} : TRUE

\* ^(\w{3} \d{2} \d{2}:\d{2}:\d{2}) (\S+) ([^:]+): (.+)$
\* the groups <<timestamp, hostname, service, message>>, or NoMatch
MatchSyslog(s) ==
    LET nh == RunLen(s, 7, NonSpace)
        ps == 7 + nh + 1
        ns == RunLen(s, ps, NoColon)
        k  == ps + ns
    IN IF /\ At(s, 1) \in Word3Atoms /\ At(s, 2) = " " /\ At(s, 3) \in Digit2Atoms
          /\ At(s, 4) = " " /\ At(s, 5) \in TimeAtoms /\ At(s, 6) = " "
          /\ nh >= 1 /\ At(s, 7 + nh) = " "
          /\ ns >= 1
          /\ At(s, k) = ":" /\ At(s, k + 1) = " "
          /\ k + 2 <= Len(s)
          /\ "\n" \notin Range(SubSeq(s, k + 2, Len(s)))
       THEN <<SubSeq(s, 1, 5), SubSeq(s, 7, 6 + nh), SubSeq(s, ps, k - 1),
              SubSeq(s, k + 2, Len(s))>>
       ELSE NoMatch

\* self.patterns, in the insertion order _detect_format iterates
FormatNames == <<"standard", "apache", "syslog">>

Match(format_name, s) ==
    CASE format_name = "standard" -> MatchStandard(s)
      [] format_name = "apache"   -> MatchApache(s)
      [] format_name = "syslog"   -> MatchSyslog(s)

_detect_format(line) ==
    IF Match(FormatNames[1], line) # NoMatch THEN FormatNames[1]
    ELSE IF Match(FormatNames[2], line) # NoMatch THEN FormatNames[2]
    ELSE IF Match(FormatNames[3], line) # NoMatch THEN FormatNames[3]
    ELSE None

\* datetime.now().year, as the environment may answer it
Years == {2024, 2025}

ValueError == "ValueError"
IndexError == "IndexError"
\* a reformatting that raised ValueError yields no text
NoText == <<>>

\* proleptic ordinal of a calendar date that exists (datetime.date.toordinal)
DayOf(d) ==
    CASE d \in {"2023-10-10"} -> 738803
      [] d = "2023-12-31" -> 738885
      [] d \in {"2024-01-01", "2024/01/01"} -> 738886
      [] d \in {"2024-01-02", "2024/01/02"} -> 738887
      [] d = "2024-02-15" -> 738931
      [] d = "2024-02-29" -> 738945
      [] d = "2024-03-15" -> 738960
      [] d = "2024-03-29" -> 738974
      [] d = "2025-02-15" -> 739297
      [] d = "2025-03-15" -> 739325
      [] d = "2025-03-29" -> 739339

\* the dates of the alphabet that name no day of the calendar
NoSuchDay == {"2024-02-30"}

SecondOf(t) ==
    CASE t = "00:00:00" -> 0
      [] t = "12:34:56" -> 45296
      [] t = "13:55:36" -> 50136
      [] t = "23:59:59" -> 86399

\* the times of the alphabet that name no second of the day
NoSuchTime == {"25:00:00"}

\* datetime.strptime(tok, "%d/%b/%Y:%H:%M:%S").strftime("%Y-%m-%d %H:%M:%S")
ApacheReformat(tok) ==
    IF tok = <<"10/Oct/2023:13:55:36">> THEN <<"2023-10-10", " ", "13:55:36">>
    ELSE NoText

\* strftime("%Y-%m-%d") of year, month abbreviation (any case) and day, or ValueError
IsoDate(year, mon, dd) ==
    LET m == LowerAtom(mon) IN
    CASE year = 2024 /\ m = "feb" /\ dd = "15" -> "2024-02-15"
      [] year = 2024 /\ m = "feb" /\ dd = "29" -> "2024-02-29"
      [] year = 2024 /\ m = "mar" /\ dd = "15" -> "2024-03-15"
      [] year = 2024 /\ m = "mar" /\ dd = "29" -> "2024-03-29"
      [] year = 2025 /\ m = "feb" /\ dd = "15" -> "2025-02-15"
      [] year = 2025 /\ m = "mar" /\ dd = "15" -> "2025-03-15"
      [] year = 2025 /\ m = "mar" /\ dd = "29" -> "2025-03-29"
      [] OTHER -> ValueError

\* datetime.strptime(f"{current_year} {timestamp}", "%Y %b %d %H:%M:%S")
\*     .strftime("%Y-%m-%d %H:%M:%S"); timestamp is <<Mon, " ", dd, " ", hh:mm:ss>>
SyslogReformat(current_year, timestamp) ==
    LET d == IsoDate(current_year, timestamp[1], timestamp[3]) IN
    IF d = ValueError \/ timestamp[5] \in NoSuchTime THEN NoText
    ELSE <<d, " ", timestamp[5]>>

\* the pattern matched against the line as it is
ParseStandardUnstripped(line) ==
    LET match == MatchStandard(line) IN
    IF match # NoMatch
    THEN Returned(<<LogEntry(match[1], match[2], match[3], match[4])>>)
    ELSE Returned(<<>>)

\* lines 111-117: the pattern is matched against line.strip()
_parse_standard_format(line) ==
    LET match == MatchStandard(Strip(line)) IN
    IF match # NoMatch
    THEN Returned(<<LogEntry(match[1], match[2], match[3], match[4])>>)
    ELSE Returned(<<>>)

\* int(status) of a run of digits; a run is one atom in the texts of this model
IntOfText(t) == IntOf(t[1])

\* lines 133-137
ApacheSeverity(status) ==
    IF IntOfText(status) >= 400 /\ IntOfText(status) < 500 THEN <<"WARNING">>
    ELSE IF IntOfText(status) >= 500 THEN <<"ERROR">>
    ELSE <<"INFO">>

\* timestamp.split()[0] raises IndexError when the timestamp is all whitespace
_parse_apache_format(line) ==
    LET match == MatchApache(Strip(line)) IN
    IF match # NoMatch
    THEN LET timestamp == match[2]
             request   == match[3]
             status    == match[4]
             size      == match[5]
             parts     == Split(timestamp)
         IN IF parts = <<>> THEN Raised(IndexError)
            ELSE Returned(<<LogEntry(
                   IF ApacheReformat(parts[1]) = NoText THEN timestamp
                   ELSE ApacheReformat(parts[1]),
                   ApacheSeverity(status),
                   <<"WebServer">>,
                   <<"Request", ":", " ">> \o request \o <<",", " ", "Status", ":", " ">>
                       \o status \o <<",", " ", "Size", ":", " ">> \o size)>>)
    ELSE Returned(<<>>)

\* lines 163-169
SyslogSeverity(message) ==
    IF Contains(Lower(message), "error") THEN <<"ERROR">>
    ELSE IF Contains(Lower(message), "warning") THEN <<"WARNING">>
    ELSE IF Contains(Lower(message), "critical") THEN <<"CRITICAL">>
    ELSE <<"INFO">>

_parse_syslog_format(line, current_year) ==
    LET match == MatchSyslog(Strip(line)) IN
    IF match # NoMatch
    THEN LET timestamp == match[1]
             service   == match[3]
             message   == match[4]
         IN Returned(<<LogEntry(
              IF SyslogReformat(current_year, timestamp) = NoText THEN timestamp
              ELSE SyslogReformat(current_year, timestamp),
              SyslogSeverity(message),
              service,
              message)>>)
    ELSE Returned(<<>>)

(* ---------------------------------------------------------------------- *)
(* csv.reader with the default dialect, as parse_file uses it              *)
(* ---------------------------------------------------------------------- *)
\* the reader's state: parser mode, the field and the row being built, and
\* whether _csv.Error (field larger than field limit) was raised
CsvStart == [mode |-> "START_RECORD", field |-> <<>>, row |-> <<>>, error |-> FALSE]

\* parse_process_char on one atom other than the line end
CsvChar(st, a) ==
    LET add(mode) == IF a = Huge THEN [st EXCEPT !.error = TRUE]
                     ELSE [st EXCEPT !.mode = mode, !.field = st.field \o <<a>>]
        save(mode) == [st EXCEPT !.mode = mode, !.field = <<>>, !.row = st.row \o <<st.field>>]
    IN CASE st.error -> st
         [] st.mode \in {"START_RECORD", "START_FIELD"} ->
              IF a = "\"" THEN [st EXCEPT !.mode = "IN_QUOTED_FIELD"]
              ELSE IF a = "," THEN save("START_FIELD")
              ELSE add("IN_FIELD")
         [] st.mode = "IN_FIELD" ->
              IF a = "," THEN save("START_FIELD") ELSE add("IN_FIELD")
         [] st.mode = "IN_QUOTED_FIELD" ->
              IF a = "\"" THEN [st EXCEPT !.mode = "QUOTE_IN_QUOTED_FIELD"]
              ELSE add("IN_QUOTED_FIELD")
         [] st.mode = "QUOTE_IN_QUOTED_FIELD" ->
              IF a = "\"" THEN add("IN_QUOTED_FIELD")
              ELSE IF a = "," THEN save("START_FIELD")
              ELSE add("IN_FIELD")

RECURSIVE CsvChars(_, _, _)
CsvChars(st, s, i) == IF i > Len(s) THEN st ELSE CsvChars(CsvChar(st, s[i]), s, i + 1)

\* the newline that ends a line: the record ends, unless a quoted field is open
CsvEol(st) ==
    CASE st.error -> st
      [] st.mode = "START_RECORD" -> st
      [] st.mode = "IN_QUOTED_FIELD" -> [st EXCEPT !.field = st.field \o <<"\n">>]
      [] OTHER -> [st EXCEPT !.mode = "START_RECORD", !.field = <<>>,
                             !.row = st.row \o <<st.field>>]

\* the rows the reader yields until the file ends or _csv.Error is raised
RECURSIVE CsvRows(_, _, _)
CsvRows(lines, i, st) ==
    IF i > Len(lines)
    THEN [rows  |-> IF st.mode = "IN_QUOTED_FIELD" \/ st.field # <<>>
                    THEN <<st.row \o <<st.field>>>> ELSE <<>>,
          error |-> FALSE]
    ELSE LET after == CsvEol(CsvChars(st, lines[i], 1)) IN
         IF after.error THEN [rows |-> <<>>, error |-> TRUE]
         ELSE IF after.mode = "START_RECORD"
         THEN LET rest == CsvRows(lines, i + 1, CsvStart)
              IN [rows |-> <<after.row>> \o rest.rows, error |-> rest.error]
         ELSE CsvRows(lines, i + 1, after)

\* list.index, 0-based, or -1
RECURSIVE IndexOf(_, _, _)
IndexOf(row, x, i) ==
    IF i > Len(row) THEN -1 ELSE IF row[i] = x THEN i - 1 ELSE IndexOf(row, x, i + 1)

Max(a, b) == IF a >= b THEN a ELSE b

\* lines 77-89: the entries of the rows after the header
RECURSIVE CsvEntries(_, _, _, _, _, _)
CsvEntries(rows, i, timestamp_idx, severity_idx, source_idx, message_idx) ==
    IF i > Len(rows) THEN <<>>
    ELSE LET row == rows[i] IN
         (IF Len(row) > Max(Max(timestamp_idx, severity_idx), Max(source_idx, message_idx))
          THEN <<LogEntry(row[timestamp_idx + 1],
                          row[severity_idx + 1],
                          IF source_idx >= 0 THEN row[source_idx + 1] ELSE <<"unknown">>,
                          IF message_idx >= 0 THEN row[message_idx + 1]
                          ELSE <<"No", " ", "message">>)>>
          ELSE <<>>)
         \o CsvEntries(rows, i + 1, timestamp_idx, severity_idx, source_idx, message_idx)

\* lines 93-107: whitespace tokenization of every line
RECURSIVE FallbackEntries(_, _)
FallbackEntries(lines, i) ==
    IF i > Len(lines) THEN <<>>
    ELSE LET parts == Split(Strip(lines[i])) IN
         (IF Len(parts) >= 4
          THEN <<LogEntry(parts[1], parts[2], parts[3], Join(SubSeq(parts, 4, Len(parts))))>>
          ELSE <<>>)
         \o FallbackEntries(lines, i + 1)

(* ---------------------------------------------------------------------- *)
(* LogParser.parse_file                                                    *)
(* ---------------------------------------------------------------------- *)
ParseLine(format_name, line, current_year) ==
    CASE format_name = "standard" -> _parse_standard_format(line)
      [] format_name = "apache"   -> _parse_apache_format(line)
      [] format_name = "syslog"   -> _parse_syslog_format(line, current_year)

\* lines 48-62: the loop of one dialect; an exception of a line parser ends it
RECURSIVE DialectEntries(_, _, _, _)
DialectEntries(format_name, lines, i, current_year) ==
    IF i > Len(lines) THEN Returned(<<>>)
    ELSE LET entry == ParseLine(format_name, lines[i], current_year)
             rest  == DialectEntries(format_name, lines, i + 1, current_year)
         IN IF entry.raised # None THEN entry
            ELSE IF rest.raised # None THEN rest
            ELSE Returned(entry.entries \o rest.entries)

\* line 71
HeaderOk(header) ==
    Len(header) >= 4 /\ <<"timestamp">> \in Range(header) /\ <<"severity">> \in Range(header)

\* lines 64-107: the path of a file whose first line matches no dialect
TabularEntries(lines) ==
    LET csv == CsvRows(lines, 1, CsvStart) IN
    IF csv.rows = <<>>
    THEN \* next(reader) raised StopIteration or _csv.Error: log_entries is still empty
         FallbackEntries(lines, 1)
    ELSE LET header == csv.rows[1] IN
         IF HeaderOk(header)
         THEN LET fromRows == CsvEntries(csv.rows, 2,
                                         IndexOf(header, <<"timestamp">>, 1),
                                         IndexOf(header, <<"severity">>, 1),
                                         IndexOf(header, <<"source">>, 1),
                                         IndexOf(header, <<"message">>, 1))
              IN IF csv.error
                 THEN \* the except clause appends to the entries already collected
                      fromRows \o FallbackEntries(lines, 1)
                 ELSE fromRows
         ELSE <<>>

FileNotFoundError == "FileNotFoundError"

\* a path names the lines of a file, or nothing
File(lines) == [exists |-> TRUE, lines |-> lines]
NoFile == [exists |-> FALSE, lines |-> <<>>]

parse_file(file, current_year) ==
    IF ~file.exists THEN Raised(FileNotFoundError)
    ELSE LET first_line == IF file.lines = <<>> THEN <<>> ELSE Strip(file.lines[1])
             detected_format == _detect_format(first_line)
         IN IF detected_format # None
            THEN DialectEntries(detected_format, file.lines, 1, current_year)
            ELSE Returned(TabularEntries(file.lines))

(* ---------------------------------------------------------------------- *)
(* log_analyzer.py: timestamps                                             *)
(* ---------------------------------------------------------------------- *)
\* a datetime is <<toordinal, second of the day, microsecond>>; NoDatetime when
\* strptime raised ValueError
NoDatetime == <<>>

MicrosecondOf(f) == CASE f = ".5" -> 500000

AllSpace(s) == \A i \in 1..Len(s) : IsSpace(s[i])

\* strptime(text, fmt) for the three formats of lines 24-28 and 77; the blank of a
\* format matches one or more whitespace characters
Strptime(text, fmt) ==
    LET n    == Len(text)
        frac == fmt = "%Y-%m-%d %H:%M:%S.%f"
        date == IF fmt = "%Y/%m/%d %H:%M:%S" THEN SlashDateAtoms ELSE DateAtoms
        last == IF frac THEN n - 1 ELSE n       \* where the time is
    IN IF /\ last >= 3
          /\ text[1] \in date \ NoSuchDay
          /\ AllSpace(SubSeq(text, 2, last - 1))
          /\ text[last] \in TimeAtoms \ NoSuchTime
          /\ frac => text[n] \in FracAtoms
       THEN <<DayOf(text[1]), SecondOf(text[last]), IF frac THEN MicrosecondOf(text[n]) ELSE 0>>
       ELSE NoDatetime

TimestampFormats == <<"%Y-%m-%d %H:%M:%S", "%Y-%m-%d %H:%M:%S.%f", "%Y/%m/%d %H:%M:%S">>

\* lines 30-35 and 77-83: the first format that parses
ParseTimestamp(text) ==
    IF Strptime(text, TimestampFormats[1]) # NoDatetime THEN Strptime(text, TimestampFormats[1])
    ELSE IF Strptime(text, TimestampFormats[2]) # NoDatetime
    THEN Strptime(text, TimestampFormats[2])
    ELSE Strptime(text, TimestampFormats[3])

\* datetime.strptime(text, "%Y-%m-%d")
StrptimeDate(text) ==
    IF Len(text) = 1 /\ text[1] \in DateAtoms \ NoSuchDay
    THEN <<DayOf(text[1]), 0, 0>>
    ELSE NoDatetime

\* a <= b on datetimes
DatetimeLe(a, b) ==
    \/ a[1] < b[1]
    \/ a[1] = b[1] /\ a[2] < b[2]
    \/ a[1] = b[1] /\ a[2] = b[2] /\ a[3] <= b[3]

(* ---------------------------------------------------------------------- *)
(* LogAnalyzer: the three filters                                          *)
(* ---------------------------------------------------------------------- *)
\* what a filter yields: the exception raised (or None), the entries returned and
\* how many entries of the input its loop examined
Filtered(entries, examined) == [raised |-> None, entries |-> entries, examined |-> examined]
FilterRaised(examined) == [raised |-> ValueError, entries |-> <<>>, examined |-> examined]

\* the end date left at 00:00:00
EndOfDayMutant(end_dt) == end_dt

\* line 16: end_dt.replace(hour=23, minute=59, second=59)
EndOfDay(end_dt) == <<end_dt[1], 86399, end_dt[3]>>

\* line 37
InRange(entry_dt, start_dt, end_dt) ==
    entry_dt # NoDatetime /\ DatetimeLe(start_dt, entry_dt) /\ DatetimeLe(entry_dt, end_dt)

RECURSIVE KeepInRange(_, _, _, _)
KeepInRange(entries, i, start_dt, end_dt) ==
    IF i > Len(entries) THEN <<>>
    ELSE (IF InRange(ParseTimestamp(entries[i].timestamp), start_dt, end_dt)
          THEN <<entries[i]>> ELSE <<>>)
         \o KeepInRange(entries, i + 1, start_dt, end_dt)

filter_by_date(entries, start_date, end_date) ==
    LET start_dt == StrptimeDate(start_date)
        end_dt   == StrptimeDate(end_date)
    IN IF start_dt = NoDatetime \/ end_dt = NoDatetime
       THEN FilterRaised(0)      \* lines 14-15 raise before the loop of line 18
       ELSE Filtered(KeepInRange(entries, 1, start_dt, EndOfDay(end_dt)), Len(entries))

RECURSIVE KeepSeverity(_, _, _)
KeepSeverity(entries, i, severity) ==
    IF i > Len(entries) THEN <<>>
    ELSE (IF entries[i].severity = severity THEN <<entries[i]>> ELSE <<>>)
         \o KeepSeverity(entries, i + 1, severity)

filter_by_severity(entries, severity) == Filtered(KeepSeverity(entries, 1, severity), Len(entries))

\* The patterns of this model are literal texts in which "(" and ")" group.
\* re.compile raises re.error exactly when the parentheses do not balance.
RECURSIVE Balanced(_, _, _)
Balanced(pattern, i, depth) ==
    IF i > Len(pattern) THEN depth = 0
    ELSE IF pattern[i] = "(" THEN Balanced(pattern, i + 1, depth + 1)
    ELSE IF pattern[i] = ")" THEN depth > 0 /\ Balanced(pattern, i + 1, depth - 1)
    ELSE Balanced(pattern, i + 1, depth)

Compiles(pattern) == Balanced(pattern, 1, 0)

\* the literal a compiled pattern searches for
Literal(pattern) == SelectSeq(pattern, LAMBDA a : a \notin {"(", ")"})

\* the characters of atom a occur inside atom b
AtomWithin(a, b) == a = b \/ (a = "error" /\ b = "errors")

\* regex.search(message): the literal occurs somewhere in the message
Search(literal, message) ==
    \/ literal = <<>>
    \/ Len(literal) = 1 /\ \E i \in 1..Len(message) : AtomWithin(literal[1], message[i])
    \/ Len(literal) > 1 /\ \E i \in 1..(Len(message) - Len(literal) + 1) :
           SubSeq(message, i, i + Len(literal) - 1) = literal

RECURSIVE KeepMatching(_, _, _)
KeepMatching(entries, i, literal) ==
    IF i > Len(entries) THEN <<>>
    ELSE (IF Search(literal, entries[i].message) THEN <<entries[i]>> ELSE <<>>)
         \o KeepMatching(entries, i + 1, literal)

filter_by_pattern(entries, pattern) ==
    IF ~Compiles(pattern) THEN FilterRaised(0)    \* line 55 raises before line 56 runs
    ELSE Filtered(KeepMatching(entries, 1, Literal(pattern)), Len(entries))

(* ---------------------------------------------------------------------- *)
(* IEEE 754 binary64 arithmetic on the values the analyzer computes        *)
(* ---------------------------------------------------------------------- *)
\* A positive double is [m, e] and denotes m * 2^e, where m is an integer of exactly
\* 53 bits written as five digits <<1, d1, d2, d3, d4>> in base 2^13, most significant
\* first.  Zero is FZero.
Limb == 8192
FZero == [m |-> <<0, 0, 0, 0, 0>>, e |-> 0]

\* scale a / b into [1, 2): <<a', b', e>> with a / b = (a' / b') * 2^e
RECURSIVE Normalize(_, _, _)
Normalize(a, b, e) ==
    IF a < b THEN Normalize(2 * a, b, e - 1)
    ELSE IF a >= 2 * b THEN Normalize(a, 2 * b, e + 1)
    ELSE <<a, b, e>>

\* m + 1 on five digits; the carry out of the top digit gives 2^53 = 2 * 2^52
RECURSIVE IncDigits(_, _)
IncDigits(m, i) ==
    IF i = 1 THEN [m EXCEPT ![1] = m[1] + 1]
    ELSE IF m[i] + 1 < Limb THEN [m EXCEPT ![i] = m[i] + 1]
    ELSE IncDigits([m EXCEPT ![i] = 0], i - 1)

\* round to nearest, ties to even: q is the truncated mantissa, rem / den the
\* discarded fraction
RoundNearestEven(q, rem, den, e) ==
    LET up == 2 * rem > den \/ (2 * rem = den /\ q[5] % 2 = 1)
        r  == IF up THEN IncDigits(q, 5) ELSE q
    IN IF r[1] = 2 THEN [m |-> <<1, 0, 0, 0, 0>>, e |-> e + 1] ELSE [m |-> r, e |-> e]

\* long division of the digits num (the first may exceed a digit) by den
RECURSIVE LongDiv(_, _, _, _)
LongDiv(num, i, rem, den) ==
    IF i > Len(num) THEN [q |-> <<>>, rem |-> rem]
    ELSE LET cur  == rem * (IF i = 1 THEN 1 ELSE Limb) + num[i]
             rest == LongDiv(num, i + 1, cur % den, den)
         IN [q |-> <<cur \div den>> \o rest.q, rem |-> rest.rem]

\* a / b in Python for integers a >= 0, b > 0: the correctly rounded quotient
FDiv(a, b) ==
    IF a = 0 THEN FZero
    ELSE LET n == Normalize(a, b, 0)
             d == LongDiv(<<n[1], 0, 0, 0, 0>>, 1, 0, n[2])
         IN RoundNearestEven(d.q, d.rem, n[2], n[3] - 52)

\* m * k on five digits, not normalised: the first digit takes the overflow
RECURSIVE MulDigits(_, _, _, _)
MulDigits(m, k, i, carry) ==
    IF i = 1 THEN <<m[1] * k + carry>>
    ELSE MulDigits(m, k, i - 1, (m[i] * k + carry) \div Limb) \o <<(m[i] * k + carry) % Limb>>

RECURSIVE BitsAbove(_)
\* how many times n >= 1 can be halved before it is 1
BitsAbove(n) == IF n <= 1 THEN 0 ELSE 1 + BitsAbove(n \div 2)

RECURSIVE Pow2(_)
Pow2(n) == IF n = 0 THEN 1 ELSE 2 * Pow2(n - 1)

\* x * k in Python for a double x and an integer 1 <= k < 2^13
FMul(x, k) ==
    IF x = FZero THEN FZero
    ELSE LET p == MulDigits(x.m, k, 5, 0)
             s == BitsAbove(p[1])
             d == LongDiv(p, 1, 0, Pow2(s))
         IN RoundNearestEven(d.q, d.rem, Pow2(s), x.e + s)

\* floor(x) and whether x has a fractional part, for 0 <= x < 2^26
RECURSIVE DropDigits(_, _)
DropDigits(m, c) ==
    IF c = 0 THEN [m |-> m, sticky |-> FALSE]
    ELSE LET r == DropDigits(SubSeq(m, 1, Len(m) - 1), c - 1)
         IN [m |-> r.m, sticky |-> r.sticky \/ m[Len(m)] # 0]

RECURSIVE DigitsValue(_, _)
DigitsValue(m, acc) == IF m = <<>> THEN acc ELSE DigitsValue(Tail(m), acc * Limb + m[1])

Floor(x) ==
    IF x = FZero THEN [int |-> 0, frac |-> FALSE]
    ELSE IF -x.e >= 65 THEN [int |-> 0, frac |-> TRUE]
    ELSE LET k == -x.e
             r == DropDigits(x.m, k \div 13)
             v == DigitsValue(r.m, 0)
         IN [int  |-> v \div Pow2(k % 13),
             frac |-> r.sticky \/ v % Pow2(k % 13) # 0]

\* x > t in Python for a double x and an integer t
FGreater(x, t) == Floor(x).int > t \/ (Floor(x).int = t /\ Floor(x).frac)

(* ---------------------------------------------------------------------- *)
(* LogAnalyzer.generate_statistics and LogAnalyzer.check_alerts            *)
(* ---------------------------------------------------------------------- *)
\* A dict (and a Counter) is the sequence of its <<key, value>> pairs in insertion
\* order, which is the order Python iterates it in.
Get(d, key, default) ==
    IF \E i \in 1..Len(d) : d[i][1] = key
    THEN d[CHOOSE i \in 1..Len(d) : d[i][1] = key][2]
    ELSE default

\* counter[key] += 1: a new key goes last
Increment(d, key) ==
    IF \E i \in 1..Len(d) : d[i][1] = key
    THEN [i \in 1..Len(d) |-> IF d[i][1] = key THEN <<key, d[i][2] + 1>> ELSE d[i]]
    ELSE Append(d, <<key, 1>>)

RECURSIVE CountAll(_, _, _)
\* Counter(keys), or counter.update(keys) on the counter d
CountAll(d, keys, i) ==
    IF i > Len(keys) THEN d ELSE CountAll(Increment(d, keys[i]), keys, i + 1)

IsError(entry) == entry.severity \in {<<"ERROR">>, <<"CRITICAL">>}

RECURSIVE ErrorCount(_, _)
ErrorCount(entries, i) ==
    IF i > Len(entries) THEN 0
    ELSE (IF IsError(entries[i]) THEN 1 ELSE 0) + ErrorCount(entries, i + 1)

\* lines 93, 121 and 134: (count / total_entries) * 100 if total_entries > 0 else 0
Rate(count, total_entries) ==
    IF total_entries > 0 THEN FMul(FDiv(count, total_entries), 100) ELSE FZero

HourOf(dt) == dt[2] \div 3600

\* lines 73-88: the hours of the entries whose timestamp parses, counted, by hour
RECURSIVE Hours(_, _)
Hours(entries, i) ==
    IF i > Len(entries) THEN <<>>
    ELSE (IF ParseTimestamp(entries[i].timestamp) # NoDatetime
          THEN <<HourOf(ParseTimestamp(entries[i].timestamp))>> ELSE <<>>)
         \o Hours(entries, i + 1)

RECURSIVE SortedByKey(_, _)
SortedByKey(d, from) ==
    IF from > 23 THEN <<>>
    ELSE (IF Get(d, from, 0) > 0 THEN <<<<from, Get(d, from, 0)>>>> ELSE <<>>)
         \o SortedByKey(d, from + 1)

\* re.findall(r'\b\w+\b', text): the maximal runs of word characters
RECURSIVE Words(_)
Words(text) ==
    IF text = <<>> THEN <<>>
    ELSE IF ~IsWord(text[1]) THEN Words(Tail(text))
    ELSE LET n == RunLen(text, 1, WordAtoms)
         IN <<SubSeq(text, 1, n)>> \o Words(SubSeq(text, n + 1, Len(text)))

RECURSIVE AllWords(_, _)
\* lines 96-99: the words of every message, lowercased, in order
AllWords(entries, i) ==
    IF i > Len(entries) THEN <<>>
    ELSE Words(Lower(entries[i].message)) \o AllWords(entries, i + 1)

\* line 102
common_words == {<<"the">>, <<"a">>, <<"an">>, <<"and">>, <<"or">>, <<"but">>, <<"is">>,
                 <<"are">>, <<"was">>, <<"were">>}

\* lines 103-105
DeleteCommon(word_counts) == SelectSeq(word_counts, LAMBDA p : p[1] \notin common_words)

Remove(d, i) == SubSeq(d, 1, i - 1) \o SubSeq(d, i + 1, Len(d))

\* the first pair of d with the largest count
FirstMax(d) ==
    CHOOSE i \in 1..Len(d) :
        /\ \A j \in 1..Len(d) : d[j][2] <= d[i][2]
        /\ \A j \in 1..(i - 1) : d[j][2] < d[i][2]

\* the last pair of d with the largest count
LastMax(d) ==
    CHOOSE i \in 1..Len(d) :
        /\ \A j \in 1..Len(d) : d[j][2] <= d[i][2]
        /\ \A j \in (i + 1)..Len(d) : d[j][2] < d[i][2]

\* equal counts in reverse insertion order
RECURSIVE MostCommonMutant(_, _)
MostCommonMutant(d, n) ==
    IF n = 0 \/ d = <<>> THEN <<>>
    ELSE <<d[LastMax(d)]>> \o MostCommonMutant(Remove(d, LastMax(d)), n - 1)

\* Counter.most_common(n): by count, largest first, equal counts in insertion order
RECURSIVE MostCommon(_, _)
MostCommon(d, n) ==
    IF n = 0 \/ d = <<>> THEN <<>>
    ELSE <<d[FirstMax(d)]>> \o MostCommon(Remove(d, FirstMax(d)), n - 1)

\* line 107: most_common(10)
TopTerms == 10

generate_statistics(entries) ==
    [raised            |-> None,
     severity_counts   |-> CountAll(<<>>, [i \in 1..Len(entries) |-> entries[i].severity], 1),
     source_counts     |-> CountAll(<<>>, [i \in 1..Len(entries) |-> entries[i].source], 1),
     hour_distribution |-> SortedByKey(CountAll(<<>>, Hours(entries, 1), 1), 0),
     error_rate        |-> Rate(ErrorCount(entries, 1), Len(entries)),
     common_terms      |-> MostCommon(DeleteCommon(CountAll(<<>>, AllWords(entries, 1), 1)),
                                      TopTerms)]

\* the sources of all entries
RECURSIVE ErrorSourcesMutant(_, _)
ErrorSourcesMutant(entries, i) ==
    IF i > Len(entries) THEN <<>>
    ELSE <<entries[i].source>> \o ErrorSourcesMutant(entries, i + 1)

\* lines 127-130: the sources of the ERROR and CRITICAL entries, in order
RECURSIVE ErrorSources(_, _)
ErrorSources(entries, i) ==
    IF i > Len(entries) THEN <<>>
    ELSE (IF IsError(entries[i]) THEN <<entries[i].source>> ELSE <<>>)
         \o ErrorSources(entries, i + 1)

\* the alert of line 124 and the alert of line 136, before they are rendered
GlobalAlert(error_rate, threshold) ==
    [kind |-> "global", source |-> <<>>, rate |-> error_rate, threshold |-> threshold]
SourceAlert(source, source_error_rate) ==
    [kind |-> "source", source |-> source, rate |-> source_error_rate, threshold |-> 0]

\* lines 133-136
RECURSIVE SourceAlerts(_, _, _, _)
SourceAlerts(source_errors, i, total_entries, threshold) ==
    IF i > Len(source_errors) THEN <<>>
    ELSE (IF FGreater(Rate(source_errors[i][2], total_entries), threshold)
          THEN <<SourceAlert(source_errors[i][1], Rate(source_errors[i][2], total_entries))>>
          ELSE <<>>)
         \o SourceAlerts(source_errors, i + 1, total_entries, threshold)

\* the rate of a source taken over the entries of that source alone
RECURSIVE SourceAlertsOwnTotal(_, _, _, _)
SourceAlertsOwnTotal(source_errors, i, entries, threshold) ==
    IF i > Len(source_errors) THEN <<>>
    ELSE LET own == Cardinality({j \in 1..Len(entries) :
                                    entries[j].source = source_errors[i][1]})
         IN (IF FGreater(Rate(source_errors[i][2], own), threshold)
             THEN <<SourceAlert(source_errors[i][1], Rate(source_errors[i][2], own))>>
             ELSE <<>>)
            \o SourceAlertsOwnTotal(source_errors, i + 1, entries, threshold)

\* line 138: alerts if alerts else None
AlertsOrNone(alerts) == [none |-> alerts = <<>>, alerts |-> alerts]

\* check_alerts with each source's rate taken over that source's own entries
CheckAlertsOwnTotal(entries, threshold) ==
    LET severity_counts == CountAll(<<>>, [i \in 1..Len(entries) |-> entries[i].severity], 1)
        total_entries   == Len(entries)
        error_count     == Get(severity_counts, <<"ERROR">>, 0)
                           + Get(severity_counts, <<"CRITICAL">>, 0)
        error_rate      == Rate(error_count, total_entries)
        source_errors   == CountAll(<<>>, ErrorSources(entries, 1), 1)
    IN AlertsOrNone(
         (IF FGreater(error_rate, threshold)
          THEN <<GlobalAlert(error_rate, threshold)>> ELSE <<>>)
         \o SourceAlertsOwnTotal(source_errors, 1, entries, threshold))

\* lines 111-138
check_alerts(entries, threshold) ==
    LET severity_counts == CountAll(<<>>, [i \in 1..Len(entries) |-> entries[i].severity], 1)
        total_entries   == Len(entries)
        error_count     == Get(severity_counts, <<"ERROR">>, 0)
                           + Get(severity_counts, <<"CRITICAL">>, 0)
        error_rate      == Rate(error_count, total_entries)
        source_errors   == CountAll(<<>>, ErrorSources(entries, 1), 1)
    IN AlertsOrNone(
         (IF FGreater(error_rate, threshold)
          THEN <<GlobalAlert(error_rate, threshold)>> ELSE <<>>)
         \o SourceAlerts(source_errors, 1, total_entries, threshold))

(* ---------------------------------------------------------------------- *)
(* Inputs of the parser                                                    *)
(* ---------------------------------------------------------------------- *)
MaxLines == 3
MaxWords == 2

SeqsUpTo(S, n) == UNION {[1..k -> S] : k \in 0..n}

\* the words of s separated by single spaces
RECURSIVE Spaced(_)
Spaced(s) == IF Len(s) <= 1 THEN s ELSE <<s[1], " ">> \o Spaced(Tail(s))

StdLine(date, time, severity, source, message) ==
    <<"[", date, " ", time, "]", " ", severity, " ", "-", " ">> \o source \o <<":", " ">>
        \o message

ApacheLine(timestamp, status) ==
    <<"h", " ", "-", " ", "-", " ", "[">> \o timestamp
        \o <<"]", " ", "\"", "GET", " ", "/", "\"", " ", status, " ", "12", " ",
             "\"", "-", "\"", " ", "\"", "\"">>

SyslogLine(mon, dd, time, message) ==
    <<mon, " ", dd, " ", time, " ", "host", " ", "svc", ":", " ">> \o message

\* a line that both the apache and the syslog grammar accept
ApacheSyslogLine ==
    <<"Mar", " ", "15", " ", "12:34:56", " ", "[", "app", "]", " ", "\"", "GET", ":", " ",
      "/", "\"", " ", "200", " ", "12", " ", "\"", "\"", " ", "\"", "\"">>

Padded(line) == <<" ">> \o line \o <<"\t">>

\* the messages the severity inference of the syslog parser is tried on
KeyWords == {"critical", "Critical", "error", "ERROR", "errors", "warning", "Warning", "ok"}
Messages == {Spaced(w) : w \in SeqsUpTo(KeyWords, MaxWords) \ {<<>>}}

ApacheStamps == {<<"10/Oct/2023:13:55:36", " ", "+0000">>, <<"10/Oct/2023:13:55:36">>,
                 <<"31/Feb/2023:13:55:36", " ", "+0000">>, <<"app">>,
                 <<" ">>, <<"\t", " ">>, <<" ", "10/Oct/2023:13:55:36">>}
Statuses == {"200", "399", "400", "404", "499", "500", "503"}

\* the lines the single-line parsers and the detector are tried on
StandardLines ==
    {StdLine(d, t, v, <<"app">>, <<"disk", " ", "full">>) :
        d \in {"2024-01-01", "2024-02-30"}, t \in {"23:59:59", "25:00:00"},
        v \in {"ERROR", "level"}}
    \cup {StdLine("2024-01-01", "00:00:00", "INFO", <<"app", " ", "db">>, <<"up", ":", " ", "ok">>),
          StdLine("2024-01-01", "00:00:00", "INFO", <<"app">>, <<" ">>),
          StdLine("2024-01-01", "00:00:00", "INFO", <<"app">>, <<"up", "\t">>),
          StdLine("2024-01-01", "00:00:00", "INFO", <<"app">>, <<" ", "up", " ">>)}
ApacheLines == {ApacheLine(ts, st) : ts \in ApacheStamps, st \in Statuses}
SyslogLines ==
    {SyslogLine(mon, dd, t, m) :
        mon \in {"Mar", "feb", "app"}, dd \in {"15", "29"}, t \in {"12:34:56", "25:00:00"},
        m \in {<<"ok">>, <<"ERROR">>}}
    \cup {SyslogLine("Mar", "15", "12:34:56", m) : m \in Messages}
OtherLines ==
    {<<>>, <<" ">>, <<"disk", " ", "full">>,
     <<"[", "2024-01-01", " ", "00:00:00", "]", " ", "INFO", " ", "app", ":", " ", "ok">>,
     <<"Mar", " ", "15", " ", "12:34:56", " ", "host", " ", "svc", " ", "ok">>,
     ApacheLine(<<"app">>, "200") \o <<" ">> \o <<"ok">>}
BareLines == StandardLines \cup ApacheLines \cup SyslogLines \cup {ApacheSyslogLine}
             \cup OtherLines
Lines == BareLines \cup {Padded(l) : l \in BareLines}

\* the lines files are made of, by family
CsvHeader == <<"timestamp", ",", "severity", ",", "source", ",", "message">>
StandardFamily ==
    {StdLine("2024-01-01", "23:59:59", "ERROR", <<"app">>, <<"disk", " ", "full">>),
     Padded(StdLine("2024-01-02", "00:00:00", "INFO", <<"db">>, <<"up">>)),
     SyslogLine("Mar", "15", "12:34:56", <<"ok">>),
     <<"disk", " ", "full">>, <<>>}
ApacheFamily ==
    {ApacheLine(<<"10/Oct/2023:13:55:36", " ", "+0000">>, "404"),
     ApacheLine(<<"31/Feb/2023:13:55:36", " ", "+0000">>, "503"),
     ApacheLine(<<" ">>, "200"),
     ApacheSyslogLine,
     <<"disk", " ", "full">>}
SyslogFamily ==
    {SyslogLine("Mar", "15", "12:34:56", <<"critical", " ", "error">>),
     SyslogLine("Feb", "29", "12:34:56", <<"Warning">>),
     ApacheSyslogLine,
     StdLine("2024-01-01", "23:59:59", "ERROR", <<"app">>, <<"disk", " ", "full">>),
     <<" ">>}
TabularFamily ==
    {CsvHeader,
     <<"severity", ",", "level", ",", "timestamp", ",", "a">>,
     <<"2024-01-01", " ", "23:59:59", ",", "ERROR", ",", "app", ",", "disk", " ", "full">>,
     <<"2024-01-02", "\t", "INFO", " ", "db", " ", "up", "\t", "ok", ",", "a", ",", "a", ",", "a">>,
     <<"a", ",", Huge, ",", "a", ",", "a">>,
     <<"\"", "a", ",", "a">>,
     <<"a", " ", "a", " ", Huge, " ", "a">>,
     StdLine("2024-01-01", "23:59:59", "ERROR", <<"app">>, <<"disk", " ", "full">>)}
Families == {StandardFamily, ApacheFamily, SyslogFamily, TabularFamily}

Files == {NoFile} \cup {File(lines) : lines \in UNION {SeqsUpTo(F, MaxLines) : F \in Families}}

(* ---------------------------------------------------------------------- *)
(* State: the input a call is made on, the call, and what it yielded       *)
(* ---------------------------------------------------------------------- *)
VARIABLES
    line,         \* the line handed to a single-line parser or to the detector
    file,         \* the file at the path handed to parse_file
    log_entries,  \* main's log_entries: what parse_file returned, then each filter
    call,         \* the call made: its name and arguments
    ret           \* what the call yielded

vars == <<line, file, log_entries, call, ret>>

NoCall == [op |-> "none"]
NoRet  == Returned(<<>>)

\* --- single-line operations of LogParser --------------------------------
InitLine ==
    /\ line \in Lines
    /\ file = NoFile
    /\ log_entries = <<>>
    /\ call = NoCall
    /\ ret = NoRet

DetectFormat ==
    /\ call = NoCall
    /\ call' = [op |-> "_detect_format"]
    /\ ret' = [raised |-> None, entries |-> <<>>, format |-> _detect_format(line)]
    /\ UNCHANGED <<line, file, log_entries>>

ParseStandardFormat ==
    /\ call = NoCall
    /\ call' = [op |-> "_parse_standard_format"]
    /\ ret' = _parse_standard_format(line)
    /\ UNCHANGED <<line, file, log_entries>>

ParseApacheFormat ==
    /\ call = NoCall
    /\ call' = [op |-> "_parse_apache_format"]
    /\ ret' = _parse_apache_format(line)
    /\ UNCHANGED <<line, file, log_entries>>

ParseSyslogFormat ==
    /\ call = NoCall
    /\ \E current_year \in Years :
         /\ call' = [op |-> "_parse_syslog_format", current_year |-> current_year]
         /\ ret' = _parse_syslog_format(line, current_year)
    /\ UNCHANGED <<line, file, log_entries>>

\* str(entry) of the entry a single-line parser returned
LineParsers == {"_parse_standard_format", "_parse_apache_format", "_parse_syslog_format"}

Str ==
    /\ call.op \in LineParsers
    /\ ret.raised = None
    /\ ret.entries # <<>>
    /\ call' = [op |-> "__str__", parser |-> call.op]
    /\ ret' = [raised |-> None, entries |-> ret.entries, text |-> __str__(ret.entries[1])]
    /\ UNCHANGED <<line, file, log_entries>>

NextLine ==
    DetectFormat \/ ParseStandardFormat \/ ParseApacheFormat \/ ParseSyslogFormat \/ Str

SpecLine == InitLine /\ [][NextLine]_vars

\* --- parse_file, as main calls it (loglens.py line 29) ------------------
InitFile ==
    /\ line = <<>>
    /\ file \in Files
    /\ log_entries = <<>>
    /\ call = NoCall
    /\ ret = NoRet

ParseFile ==
    /\ call = NoCall
    /\ \E current_year \in Years :
         /\ call' = [op |-> "parse_file", current_year |-> current_year]
         /\ ret' = parse_file(file, current_year)
    /\ log_entries' = IF ret'.raised = None THEN ret'.entries ELSE log_entries
    /\ UNCHANGED <<line, file>>

NextFile == ParseFile

SpecFile == InitFile /\ [][NextFile]_vars

(* ---------------------------------------------------------------------- *)
(* Inputs of the analyzer                                                  *)
(* ---------------------------------------------------------------------- *)
MaxEntries == 3
MaxBulk == 20

Timestamps ==
    {<<"2024-01-01", " ", "23:59:59">>,
     <<"2024-01-02", " ", "00:00:00">>,
     <<"2024-01-01", "\t", "23:59:59", ".5">>,
     <<"2024/01/01", " ", "00:00:00">>,
     <<"2023-12-31", " ", "23:59:59">>,
     <<"2024-02-30", " ", "12:34:56">>,
     <<"10/Oct/2023:13:55:36", " ", "+0000">>}

\* entries that differ in their timestamp
DateEntries == {LogEntry(t, <<"INFO">>, <<"app">>, <<"ok">>) : t \in Timestamps}

\* entries that differ in severity and source
AlertEntries ==
    {LogEntry(<<"2024-01-01", " ", "23:59:59">>, <<v>>, <<src>>, <<"ok">>) :
        v \in {"INFO", "ERROR", "CRITICAL"}, src \in {"app", "db"}}
    \cup {LogEntry(<<"Mar", " ", "15", " ", "12:34:56">>, <<"error">>, <<"app">>, <<"ok">>)}

\* entries that differ in their message
TermMessages ==
    {Spaced(<<"up", "down", "ok", "app", "db", "svc", "host", "disk", "full", "error", "errors">>),
     <<"The", " ", "disk", " ", "was", " ", "full">>,
     <<"errors", ":", " ", "Error", " ", "and", " ", "ERROR">>,
     <<"full", " ", "disk">>,
     <<"an", " ", "or">>}
TermEntries == {LogEntry(<<"2024-01-01", " ", "12:34:56">>, <<"ERROR">>, <<"app">>, m) :
                    m \in TermMessages}

\* errors entries of severity ERROR followed by total - errors entries of severity INFO
Bulk(errors, total) ==
    [i \in 1..total |->
        LogEntry(<<"2024-01-01", " ", "23:59:59">>,
                 IF i <= errors THEN <<"ERROR">> ELSE <<"INFO">>, <<"app">>, <<"ok">>)]

EntrySeqs ==
    SeqsUpTo(DateEntries, MaxEntries) \cup SeqsUpTo(AlertEntries, MaxEntries)
    \cup SeqsUpTo(TermEntries, MaxEntries)
    \cup {Bulk(k, n) : k \in {0, 3, 7, 11}, n \in 10..MaxBulk}

DateArgs == {<<"2024-01-01">>, <<"2023-12-31">>, <<"2024-02-30">>, <<"2024/01/01">>}
SeverityArgs == {<<"INFO">>, <<"ERROR">>, <<"CRITICAL">>}
PatternArgs == {<<>>, <<"error">>, <<"disk", " ", "full">>, <<"(", "full", ")">>,
                <<"(">>, <<"full", ")">>}
Thresholds == {0, 20, 25, 40, 50, 55, 100}

\* --- the analysis steps of main (loglens.py lines 32-52) ----------------
InitAnalyzer ==
    /\ line = <<>>
    /\ file = NoFile
    /\ log_entries \in EntrySeqs
    /\ call = NoCall
    /\ ret = NoRet

\* the result assigned whether or not the call raised
AssignMutant(entries, result) == result.entries

\* log_entries = analyzer.filter_...(log_entries, ...): an exception leaves the
\* variable as it was
Assign(entries, result) == IF result.raised = None THEN result.entries ELSE entries

FilterByDate ==
    /\ call = NoCall
    /\ \E start_date \in DateArgs, end_date \in DateArgs :
         /\ call' = [op |-> "filter_by_date", entries |-> log_entries,
                     start_date |-> start_date, end_date |-> end_date]
         /\ ret' = filter_by_date(log_entries, start_date, end_date)
    /\ log_entries' = Assign(log_entries, ret')
    /\ UNCHANGED <<line, file>>

FilterBySeverity ==
    /\ call = NoCall
    /\ \E severity \in SeverityArgs :
         /\ call' = [op |-> "filter_by_severity", entries |-> log_entries,
                     severity |-> severity]
         /\ ret' = filter_by_severity(log_entries, severity)
    /\ log_entries' = Assign(log_entries, ret')
    /\ UNCHANGED <<line, file>>

FilterByPattern ==
    /\ call = NoCall
    /\ \E pattern \in PatternArgs :
         /\ call' = [op |-> "filter_by_pattern", entries |-> log_entries,
                     pattern |-> pattern]
         /\ ret' = filter_by_pattern(log_entries, pattern)
    /\ log_entries' = Assign(log_entries, ret')
    /\ UNCHANGED <<line, file>>

GenerateStatistics ==
    /\ call = NoCall
    /\ call' = [op |-> "generate_statistics", entries |-> log_entries]
    /\ ret' = generate_statistics(log_entries)
    /\ UNCHANGED <<line, file, log_entries>>

CheckAlerts ==
    /\ call = NoCall
    /\ \E threshold \in Thresholds :
         /\ call' = [op |-> "check_alerts", entries |-> log_entries,
                     threshold |-> threshold]
         /\ ret' = check_alerts(log_entries, threshold)
    /\ UNCHANGED <<line, file, log_entries>>

NextAnalyzer ==
    FilterByDate \/ FilterBySeverity \/ FilterByPattern \/ GenerateStatistics \/ CheckAlerts

SpecAnalyzer == InitAnalyzer /\ [][NextAnalyzer]_vars

(* ---------------------------------------------------------------------- *)
(* Properties of the parser                                                *)
(* ---------------------------------------------------------------------- *)
\* the severity the documented precedence gives: critical, else error, else
\* warning, else INFO, searched without regard to case
PrecedenceSeverity(message) ==
    IF \E i \in 1..Len(message) : LowerAtom(message[i]) = "critical" THEN <<"CRITICAL">>
    ELSE IF \E i \in 1..Len(message) : LowerAtom(message[i]) \in {"error", "errors"}
    THEN <<"ERROR">>
    ELSE IF \E i \in 1..Len(message) : LowerAtom(message[i]) = "warning" THEN <<"WARNING">>
    ELSE <<"INFO">>

\* C1: for every line that matches the syslog grammar, _parse_syslog_format returns
\* an entry whose severity follows the precedence critical > error > warning > INFO
\* of a case-insensitive search of the message.
C1_SyslogPrecedence ==
    (call.op = "_parse_syslog_format" /\ MatchSyslog(Strip(line)) # NoMatch)
    => /\ ret.raised = None
       /\ Len(ret.entries) = 1
       /\ ret.entries[1].severity = PrecedenceSeverity(MatchSyslog(Strip(line))[4])

\* C10: for every line that matches the apache grammar, _parse_apache_format returns
\* an entry (the line is never lost over its timestamp) whose source is WebServer and
\* whose severity is WARNING for a status in 400..499, ERROR for a status of 500 or
\* more and INFO for any other status.
C10_ApacheSeverity ==
    (call.op = "_parse_apache_format" /\ MatchApache(Strip(line)) # NoMatch)
    => LET status == IntOf(MatchApache(Strip(line))[4][1]) IN
       /\ ret.raised = None
       /\ Len(ret.entries) = 1
       /\ ret.entries[1].source = <<"WebServer">>
       /\ status \in 400..499 => ret.entries[1].severity = <<"WARNING">>
       /\ status >= 500 => ret.entries[1].severity = <<"ERROR">>
       /\ status < 400 => ret.entries[1].severity = <<"INFO">>

\* C11 as claimed: a line that matches the standard pattern is parsed into the
\* pattern's four groups of that line, and str() of the record is the line itself.
C11_RoundTrip ==
    /\ (call.op = "_parse_standard_format" /\ MatchStandard(line) # NoMatch)
        => LET groups == MatchStandard(line)
           IN  ret.entries = <<LogEntry(groups[1], groups[2], groups[3], groups[4])>>
    /\ (call.op = "__str__" /\ call.parser = "_parse_standard_format"
          /\ MatchStandard(line) # NoMatch)
        => ret.text = line

\* C11 as amended: a line whose text without the surrounding whitespace matches the
\* standard pattern is parsed into the pattern's four groups of that stripped text,
\* and str() of the record is the stripped text.
C11_RoundTripStripped ==
    /\ (call.op = "_parse_standard_format" /\ MatchStandard(Strip(line)) # NoMatch)
        => LET groups == MatchStandard(Strip(line))
           IN  ret.entries = <<LogEntry(groups[1], groups[2], groups[3], groups[4])>>
    /\ (call.op = "__str__" /\ call.parser = "_parse_standard_format")
        => /\ MatchStandard(Strip(line)) # NoMatch
           /\ ret.text = Strip(line)

\* a line with whitespace around it was parsed and written back without it
C11_Witness ==
    /\ call.op = "__str__"
    /\ call.parser = "_parse_standard_format"
    /\ line # Strip(line)
    /\ ret.text = Strip(line)

\* the lines of a file that match the grammar of a dialect, in order
MatchingLines(format_name, lines) ==
    SelectSeq(lines, LAMBDA l : Match(format_name, Strip(l)) # NoMatch)

\* C6: when the first line is detected as dialect D, parse_file returns one entry
\* for each line that matches the grammar of D and none for any other line, in input
\* order; no line aborts the ingestion and no later line changes the dialect: a
\* file whose first line matches no dialect yields what the tabular path yields.
C6_DialectGovernsFile ==
    (call.op = "parse_file" /\ file.exists /\ file.lines # <<>>)
    => LET D == _detect_format(Strip(file.lines[1]))
           matching == IF D = None THEN <<>> ELSE MatchingLines(D, file.lines)
       IN /\ ret.raised = None
          /\ D # None =>
               /\ Len(ret.entries) = Len(matching)
               /\ \A k \in 1..Len(matching) :
                    LET one == ParseLine(D, matching[k], call.current_year) IN
                    one.raised = None => ret.entries[k] = one.entries[1]
          /\ D = None => ret.entries = TabularEntries(file.lines)

\* the delimited-text attempt of parse_file ended in an exception: the header could
\* not be read, or the header was accepted and a later row could not be read
TabularRaised(lines) ==
    LET csv == CsvRows(lines, 1, CsvStart) IN
    \/ csv.rows = <<>>
    \/ HeaderOk(csv.rows[1]) /\ csv.error

\* the entry whitespace tokenization gives for a line of at least four tokens
TokenEntry(l) ==
    LET parts == Split(l) IN
    LogEntry(parts[1], parts[2], parts[3], Join(SubSeq(parts, 4, Len(parts))))

\* C7: when no dialect is detected and the delimited-text attempt raises, parse_file
\* returns exactly the whitespace-tokenized entries of the lines that have at least
\* four tokens, in input order: nothing of the aborted attempt remains.
C7_FallbackOnly ==
    (/\ call.op = "parse_file" /\ file.exists
     /\ _detect_format(IF file.lines = <<>> THEN <<>> ELSE Strip(file.lines[1])) = None
     /\ TabularRaised(file.lines))
    => LET tokenized == SelectSeq(file.lines, LAMBDA l : Len(Split(l)) >= 4) IN
       /\ ret.raised = None
       /\ ret.entries = [k \in 1..Len(tokenized) |-> TokenEntry(tokenized[k])]

(* ---------------------------------------------------------------------- *)
(* Properties of the analyzer                                              *)
(* ---------------------------------------------------------------------- *)
ErrorIndexes(entries) ==
    {i \in 1..Len(entries) : entries[i].severity \in {<<"ERROR">>, <<"CRITICAL">>}}

ErrorsOf(entries, source) == {i \in ErrorIndexes(entries) : entries[i].source = source}

\* 100 * count / total > threshold over the rationals; the rate of no entries is 0
Exceeds(count, total, threshold) ==
    IF total = 0 THEN 0 > threshold ELSE 100 * count > threshold * total

GlobalAlerts(alerts) == SelectSeq(alerts, LAMBDA a : a.kind = "global")
PerSourceAlerts(alerts) == SelectSeq(alerts, LAMBDA a : a.kind = "source")

\* C2: check_alerts returns None or a non-empty list, never an empty list; the
\* global alert is emitted exactly when 100 * errors / total exceeds the threshold
\* (not when it equals it; no entries have rate 0); the result is None exactly when
\* neither the global rate nor the rate of any source exceeds the threshold.
C2_AlertsOrNone ==
    call.op = "check_alerts"
    => LET entries == call.entries
           total   == Len(entries)
           global  == Exceeds(Cardinality(ErrorIndexes(entries)), total, call.threshold)
           bySource == \E i \in ErrorIndexes(entries) :
                          Exceeds(Cardinality(ErrorsOf(entries, entries[i].source)), total,
                                  call.threshold)
       IN /\ ret.none <=> ret.alerts = <<>>
          /\ Len(GlobalAlerts(ret.alerts)) = (IF global THEN 1 ELSE 0)
          /\ ret.none <=> (~global /\ ~bySource)

\* the distinct values of a sequence, in the order of their first occurrence
RECURSIVE Distinct(_)
Distinct(s) ==
    IF s = <<>> THEN <<>>
    ELSE LET init == Distinct(SubSeq(s, 1, Len(s) - 1))
         IN IF s[Len(s)] \in Range(init) THEN init ELSE Append(init, s[Len(s)])

AlertSources(alerts) ==
    [k \in 1..Len(PerSourceAlerts(alerts)) |-> PerSourceAlerts(alerts)[k].source]

\* the per-source alerts follow the global alert, if there is one
PerSourceAlertsLast(alerts) ==
    \A k \in 2..Len(alerts) : alerts[k].kind = "source"

WellFormedDate(text) == Len(text) = 1 /\ text[1] \in DateAtoms \ NoSuchDay

\* the timestamp parses under one of the three formats and lies between 00:00:00
\* of the start day and 23:59:59 of the end day, both included
WithinDays(timestamp, start_date, end_date) ==
    \E fmt \in Range(TimestampFormats) :
        LET dt == Strptime(timestamp, fmt) IN
        /\ dt # NoDatetime
        /\ DayOf(start_date[1]) <= dt[1]
        /\ dt[1] <= DayOf(end_date[1])
        /\ (dt[1] = DayOf(end_date[1]) /\ dt[2] = 86399) => dt[3] = 0

C5_FailedFilter ==
    (\/ /\ call.op = "filter_by_date"
        /\ ~(WellFormedDate(call.start_date) /\ WellFormedDate(call.end_date))
     \/ /\ call.op = "filter_by_pattern"
        /\ ~Compiles(call.pattern))
    => /\ ret.raised = ValueError
       /\ ret.entries = <<>>
       /\ ret.examined = 0
       /\ log_entries = call.entries

\* filter_by_pattern failed on a sequence that has an entry the literal occurs in
C5_Witness ==
    /\ call.op = "filter_by_pattern"
    /\ call.pattern = <<"full", ")">>
    /\ ret.raised = ValueError
    /\ \E i \in 1..Len(call.entries) : Search(<<"full">>, call.entries[i].message)

\* C8: generate_statistics raises nothing and leaves its input as it was; the error
\* rate of a non-empty sequence is the double 100 * (ERROR and CRITICAL entries) /
\* (all entries), whether or not the timestamps parse; for the empty sequence the
\* error rate is 0 and the four mappings are empty.
C8_Statistics ==
    call.op = "generate_statistics"
    => LET entries == call.entries IN
       /\ ret.raised = None
       /\ log_entries = entries
       /\ entries # <<>> =>
            ret.error_rate = FDiv(100 * Cardinality(ErrorIndexes(entries)), Len(entries))
       /\ entries = <<>> =>
            /\ ret.error_rate = FZero
            /\ ret.severity_counts = <<>> /\ ret.source_counts = <<>>
            /\ ret.hour_distribution = <<>> /\ ret.common_terms = <<>>

\* the lowercased words of all messages, in order
MessageWords(entries) == AllWords(entries, 1)

Occurrences(words, term) == Cardinality({i \in 1..Len(words) : words[i] = term})

FirstOccurrence(words, term) == CHOOSE i \in 1..Len(words) :
    words[i] = term /\ \A j \in 1..(i - 1) : words[j] # term

StopWords == {<<"the">>, <<"a">>, <<"an">>, <<"and">>, <<"or">>, <<"but">>, <<"is">>,
              <<"are">>, <<"was">>, <<"were">>}

\* C9: common_terms holds no stop word and at most 10 terms, each with its number of
\* occurrences as a lowercased word of the messages; a reported term occurs at least
\* as often as any unreported term that is not a stop word; of two terms that occur
\* equally often the one that occurs first in the entries is preferred and is listed
\* first.
C9_CommonTerms ==
    call.op = "generate_statistics"
    => LET words    == MessageWords(call.entries)
           terms    == ret.common_terms
           reported == {terms[k][1] : k \in 1..Len(terms)}
           others   == (Range(words) \ StopWords) \ reported
       IN /\ reported \cap StopWords = {}
          /\ Len(terms) <= 10
          /\ Cardinality(reported) = Len(terms)
          /\ \A k \in 1..Len(terms) :
                terms[k][1] \in Range(words) /\ terms[k][2] = Occurrences(words, terms[k][1])
          /\ \A k \in 1..Len(terms) : \A w \in others :
                \/ terms[k][2] > Occurrences(words, w)
                \/ /\ terms[k][2] = Occurrences(words, w)
                   /\ FirstOccurrence(words, terms[k][1]) < FirstOccurrence(words, w)
          /\ \A k, l \in 1..Len(terms) :
                (k < l /\ terms[k][2] = terms[l][2])
                => FirstOccurrence(words, terms[k][1]) < FirstOccurrence(words, terms[l][1])
          /\ others # {} => Len(terms) = 10

\* ten terms are reported and an eleventh is not; a stop word occurs in a message;
\* two reported terms occur equally often
C9_Witness ==
    /\ call.op = "generate_statistics"
    /\ Len(ret.common_terms) = 10
    /\ \E w \in Range(MessageWords(call.entries)) :
         w \notin StopWords /\ \A k \in 1..10 : ret.common_terms[k][1] # w
    /\ Range(MessageWords(call.entries)) \cap StopWords # {}
    /\ \E k, l \in 1..10 : k # l /\ ret.common_terms[k][2] = ret.common_terms[l][2]
    /\ ret.common_terms[1][2] > ret.common_terms[10][2]

\* x <= y for two doubles that are zero or positive
FLessEq(x, y) ==
    \/ x = FZero
    \/ /\ y # FZero
       /\ \/ x.e < y.e
          \/ /\ x.e = y.e
             /\ \/ x.m = y.m
                \/ \E i \in 1..5 : x.m[i] < y.m[i] /\ \A j \in 1..(i - 1) : x.m[j] = y.m[j]

\* C12: in what check_alerts returns, a per-source alert never comes without the
\* global alert and its rate is at most the global rate; the first element of every
\* result that is not None is the global alert, and it is the only global alert;
\* there are at most 1 + (distinct sources of ERROR and CRITICAL entries) alerts.
C12_GlobalFirst ==
    call.op = "check_alerts"
    => LET entries == call.entries
           alerts  == ret.alerts
       IN /\ \A k \in 1..Len(alerts) :
                alerts[k].kind = "source"
                => /\ alerts[1].kind = "global"
                   /\ FLessEq(alerts[k].rate, alerts[1].rate)
          /\ ~ret.none => (alerts # <<>> /\ alerts[1].kind = "global")
          /\ \A k \in 2..Len(alerts) : alerts[k].kind = "source"
          /\ Len(alerts) <= 1 + Cardinality({entries[i].source : i \in ErrorIndexes(entries)})

\* a global alert followed by the alert of a source whose rate is below the global rate
C12_Witness ==
    /\ call.op = "check_alerts"
    /\ ~ret.none
    /\ Len(ret.alerts) >= 2
    /\ ret.alerts[1].kind = "global"
    /\ \E k \in 2..Len(ret.alerts) :
          /\ ret.alerts[k].kind = "source"
          /\ ret.alerts[k].rate # ret.alerts[1].rate

====
